---- MODULE Spec2Model ----
(***************************************************************************)
(* A model of tiffslide.TiffSlide (src/tiffslide/tiffslide.py): the slide  *)
(* handle with its two lazy caches (_zarr_grp, _metadata), close and the   *)
(* scoped acquisition, the level geometry, best-level selection, the       *)
(* region reader, the thumbnail composer and the lazy associated-image     *)
(* table.                                                                  *)
(*                                                                         *)
(* Conventions.  A Python tuple (w, h) is the sequence <<w, h>>.  A Python *)
(* float that the code only compares is kept as an exact rational          *)
(* <<num, den>> with den > 0; the square root in level_downsamples is kept *)
(* by storing the squared ratio, and every comparison is done on squares.  *)
(* The result of a call is a record with kind "ok" or "raise".             *)
(***************************************************************************)
EXTENDS Integers, Sequences, FiniteSets, TLC

VARIABLES
    slide,        \* the container behind ts_tifffile (fixed by the file)
    tf_open,      \* ts_tifffile is open (TiffFile.close() not yet called)
    _zarr_grp,    \* self._zarr_grp: NoneV, or Some(id) of the opened view
    opens,        \* how many times zarr.open(store) has returned a view
    _metadata,    \* self._metadata: NoneV, or Some(map), the cached map
    parses,       \* how many times svs_description_metadata was called
    warnings,     \* how many warnings were emitted
    assoc,        \* the cached associated_images: NoneV, or Some([k, m])
    decodes,      \* per series of series[1:]: completed s.asarray() calls
    scope,        \* "out" | "in": inside a `with TiffSlide(...)` block
    calls,        \* collaborator calls made by the last operation, in order
    last          \* the last operation: its name, arguments and result

vars == <<slide, tf_open, _zarr_grp, opens, _metadata, parses, warnings,
          assoc, decodes, scope, calls, last>>

-----------------------------------------------------------------------------
(* Bounds of the model *)

\* cap on the number of times a chunked view is opened
MaxOpens == 3
\* cap on the number of calls of the description parser
MaxParses == 2
\* cap on the number of completed decodes of one associated image
MaxDecodes == 2
\* numerators of the downsample targets are 0..MaxNum
MaxNum == 17
\* denominators of the downsample targets are 1..MaxDen
MaxDen == 2

-----------------------------------------------------------------------------
(* Results and optional values *)

NoneV == [some |-> FALSE]
EmptyMap == [k \in {} |-> [t |-> "None"]]
Some(v) == [some |-> TRUE, v |-> v]

Ok(v) == [kind |-> "ok", val |-> v]
Raise(e) == [kind |-> "raise", exc |-> e]
IsOk(r) == r.kind = "ok"
IsRaise(r) == r.kind = "raise"

-----------------------------------------------------------------------------
(* Level geometry *)

\* TiffSlide.dimensions: the assertion on series0.ndim, then (w, h) of level 0
dimensions(s) ==
    IF s.ndim # 3 THEN Raise("AssertionError") ELSE Ok(s.levels[1])

\* TiffSlide.level_count
level_count(s) == Len(s.levels)

\* TiffSlide.level_dimensions: lvl.shape[1::-1] of every level, as (w, h)
level_dimensions(s) == s.levels

\* A rational in lowest terms (the value is the same; the numbers stay small)
RECURSIVE Gcd(_, _)
Gcd(a, b) == IF b = 0 THEN a ELSE Gcd(b, a % b)
Reduce(r) ==
    LET g == Gcd(r[1], r[2]) IN IF g = 0 THEN r ELSE <<r[1] \div g, r[2] \div g>>

\* One element of level_downsamples, sqrt((w0*h0) / (w*h)), kept as the
\* squared ratio (w0*h0) / (w*h).
SqDownsample(base, dim) == Reduce(<<base[1] * base[2], dim[1] * dim[2]>>)

\* TiffSlide.level_downsamples (squared), index i+1 is level i
level_downsamples(s) ==
    [i \in 1..Len(s.levels) |-> SqDownsample(s.levels[1], s.levels[i])]

\* Mutant of DsGeq: `ds > downsample` (an exact match selects the level itself).
DsGt(sq, t) == sq[1] * t[2] * t[2] > t[1] * t[1] * sq[2]

\* ds >= downsample, for ds = sqrt(sq[1]/sq[2]) and downsample = t[1]/t[2] >= 0
DsGeq(sq, t) == sq[1] * t[2] * t[2] >= t[1] * t[1] * sq[2]

\* ds < downsample, stated on its own (used to state the claims only)
DsLess(sq, t) == sq[1] * t[2] * t[2] < t[1] * t[1] * sq[2]

\* The for loop of get_best_level_for_downsample from position i (1-based):
\* the position of the first ds with ds >= downsample, 0 when the loop ends.
RECURSIVE FirstReaching(_, _, _)
FirstReaching(dss, t, i) ==
    IF i > Len(dss) THEN 0
    ELSE IF DsGeq(dss[i], t) THEN i
    ELSE FirstReaching(dss, t, i + 1)

\* TiffSlide.get_best_level_for_downsample(downsample), downsample = t[1]/t[2]
get_best_level_for_downsample(s, t) ==
    IF t[1] <= t[2] THEN Ok(0)
    ELSE IF IsRaise(dimensions(s)) THEN dimensions(s)
    ELSE LET pos == FirstReaching(level_downsamples(s), t, 1)
         IN  IF pos # 0 THEN Ok((pos - 1) - 1)
             ELSE Ok(level_count(s) - 1)

-----------------------------------------------------------------------------
(* The chunked view: zarr.open(series[0].aszarr(), mode='r') *)

\* The view opened from the primary series: a flat array for a single level,
\* a level-indexed group for a pyramid.
ViewKind(s) == IF Len(s.levels) = 1 THEN "Array" ELSE "Group"

\* len(view), which decides `if self._zarr_grp:` in close: shape[0] of a flat
\* array, the number of members of a group.
ViewLen(s) == IF ViewKind(s) = "Array" THEN s.levels[1][2] ELSE Len(s.levels)

\* One bound of a Python slice over an axis of length n (slice.indices).
SliceBound(v, n) ==
    IF v < 0 THEN (IF v + n < 0 THEN 0 ELSE v + n)
    ELSE (IF v > n THEN n ELSE v)

\* The index range <<lo, hi>> that arr[start:stop] selects on an axis of
\* length n; hi <= lo is the empty selection.
SliceIndices(start, stop, n) ==
    LET lo == SliceBound(start, n)
        hi == SliceBound(stop, n)
    IN  <<lo, IF hi < lo THEN lo ELSE hi>>

\* Python's t[i] on a tuple of length n: the 1-based position, 0 for IndexError.
TupleIndex(i, n) ==
    IF i >= 0 /\ i < n THEN i + 1
    ELSE IF i < 0 /\ i + n >= 0 THEN i + n + 1
    ELSE 0

-----------------------------------------------------------------------------
(* Region reader *)

\* Mutant of LevelAnchor: the downsample-style rescale with the x ratio used
\* for both axes.
LevelAnchorXRatio(loc, base, lvl) ==
    <<(loc[1] * lvl[1]) \div base[1], (loc[2] * lvl[1]) \div base[1]>>

\* level_rx, level_ry of read_region: the level-0 anchor scaled into the level
LevelAnchor(loc, base, lvl) ==
    <<(loc[1] * lvl[1]) \div base[1], (loc[2] * lvl[2]) \div base[2]>>

\* The index expression read_region hands to the view.
SliceRequest(s, level, anchor, size) ==
    [fn |-> "getitem",
     indexed |-> ViewKind(s) = "Group",
     level |-> level,
     rows |-> <<anchor[2], anchor[2] + size[2]>>,
     cols |-> <<anchor[1], anchor[1] + size[1]>>]

\* What the view returns for a request: the selected rows and columns of the
\* array it indexes, or KeyError for a level the group does not hold.
ViewGetItem(s, req) ==
    LET li  == IF req.indexed THEN req.level + 1 ELSE 1
    IN  IF req.indexed /\ (req.level < 0 \/ req.level >= Len(s.levels))
        THEN Raise("KeyError")
        ELSE LET dim == s.levels[li]
             IN  Ok([level |-> li - 1,
                     rows |-> SliceIndices(req.rows[1], req.rows[2], dim[2]),
                     cols |-> SliceIndices(req.cols[1], req.cols[2], dim[1])])

\* Image.fromarray(arr).size
ImageSize(arr) == <<arr.cols[2] - arr.cols[1], arr.rows[2] - arr.rows[1]>>

\* read_region up to the first use of self.ts_zarr_grp: the result when it
\* raises before, else the request it is about to make.
ReadPrefix(s, loc, level, size) ==
    IF IsRaise(dimensions(s)) THEN dimensions(s)
    ELSE IF TupleIndex(level, Len(level_dimensions(s))) = 0
         THEN Raise("IndexError")
    ELSE LET base == dimensions(s).val
             lvl  == level_dimensions(s)[TupleIndex(level, Len(level_dimensions(s)))]
         IN  Ok(SliceRequest(s, level, LevelAnchor(loc, base, lvl), size))

\* read_region from the slicing on: fetch is what reading pixel data from the
\* container yields ("data", or "raise" on a closed container), emptyOk
\* whether Image.fromarray accepts an array without pixels.
ReadSuffix(s, req, fetch, emptyOk) ==
    LET got == ViewGetItem(s, req)
    IN  IF IsRaise(got) THEN got
        ELSE IF fetch = "raise" THEN Raise("ClosedFileError")
        ELSE IF (ImageSize(got.val)[1] = 0 \/ ImageSize(got.val)[2] = 0) /\ ~emptyOk
             THEN Raise("ValueError")
        ELSE Ok([size |-> ImageSize(got.val), pixels |-> got.val])

-----------------------------------------------------------------------------
(* Thumbnail composer *)

\* max(slide_w / thumb_w, slide_h / thumb_h) as a rational, thumb_w, thumb_h > 0
ThumbDownsample(base, size) ==
    IF base[1] * size[2] >= base[2] * size[1]
    THEN Reduce(<<base[1], size[1]>>) ELSE Reduce(<<base[2], size[2]>>)

Abs(n) == IF n < 0 THEN -n ELSE n
CeilDiv(a, b) == IF a % b = 0 THEN a \div b ELSE (a \div b) + 1
Max(a, b) == IF a >= b THEN a ELSE b

\* Image.thumbnail(size) on an image of size img: the size it leaves, which
\* keeps the aspect ratio (the floor or the ceiling of the scaled side,
\* whichever is closer to the ratio, and at least 1).
ThumbnailSize(img, size) ==
    LET x == size[1]
        y == size[2]
        w == img[1]
        h == img[2]
    IN  IF x >= w /\ y >= h THEN img
        ELSE IF x * h >= w * y
        THEN LET f == (y * w) \div h
                 c == CeilDiv(y * w, h)
                 n == IF Abs(w * y - f * h) <= Abs(w * y - c * h) THEN f ELSE c
             IN  <<Max(n, 1), y>>
        ELSE LET f == (x * h) \div w
                 c == CeilDiv(x * h, w)
                 n == IF f = 0 THEN f
                      ELSE IF Abs(w * f - x * h) * c <= Abs(w * c - x * h) * f
                      THEN f ELSE c
             IN  <<x, Max(n, 1)>>

\* Mutant of ThumbLevel: the thumbnail is always cut from level 0.
ThumbLevelZero(s, size) == Ok(0)

\* The level get_thumbnail reads, for a size with positive sides
ThumbLevel(s, size) ==
    get_best_level_for_downsample(s, ThumbDownsample(dimensions(s).val, size))

-----------------------------------------------------------------------------
(* Property map *)

None == [t |-> "None"]
Str(v) == [t |-> "str", v |-> v]
Num(v) == [t |-> "num", v |-> v]

PROPERTY_NAME_COMMENT == "tiffslide.comment"
PROPERTY_NAME_VENDOR == "tiffslide.vendor"
PROPERTY_NAME_QUICKHASH1 == "tiffslide.quickhash-1"
PROPERTY_NAME_BACKGROUND_COLOR == "tiffslide.background-color"
PROPERTY_NAME_OBJECTIVE_POWER == "tiffslide.objective-power"
PROPERTY_NAME_MPP_X == "tiffslide.mpp-x"
PROPERTY_NAME_MPP_Y == "tiffslide.mpp-y"
PROPERTY_NAME_BOUNDS_X == "tiffslide.bounds-x"
PROPERTY_NAME_BOUNDS_Y == "tiffslide.bounds-y"
PROPERTY_NAME_BOUNDS_WIDTH == "tiffslide.bounds-width"
PROPERTY_NAME_BOUNDS_HEIGHT == "tiffslide.bounds-height"

\* dict.get(k, None) on the parsed vendor _metadata
MetaGet(meta, k) == IF k \in DOMAIN meta THEN meta[k] ELSE None

\* dict.pop(k, None)
MetaPop(meta, k) == [j \in DOMAIN meta \ {k} |-> meta[j]]

\* The else branch of the parse: drop "" and "Aperio Image Library", and give
\* a non-empty map without a header the recovered one.
NormalizeMeta(meta, recovered) ==
    LET m == MetaPop(MetaPop(meta, ""), "Aperio Image Library")
    IN  IF DOMAIN m # {} /\ "Header" \notin DOMAIN m
        THEN [j \in DOMAIN m \cup {"Header"} |->
                 IF j = "Header" THEN recovered ELSE m[j]]
        ELSE m

\* Mutant of FixedProperties: the keys without a vendor value are left out.
FixedPropertiesSparse(desc, meta) ==
    [k \in {PROPERTY_NAME_COMMENT, PROPERTY_NAME_VENDOR}
           \cup (IF "AppMag" \in DOMAIN meta
                 THEN {PROPERTY_NAME_OBJECTIVE_POWER} ELSE {})
           \cup (IF "MPP" \in DOMAIN meta
                 THEN {PROPERTY_NAME_MPP_X, PROPERTY_NAME_MPP_Y} ELSE {}) |->
        CASE k = PROPERTY_NAME_COMMENT -> Str(desc)
          [] k = PROPERTY_NAME_VENDOR -> Str("aperio")
          [] k = PROPERTY_NAME_OBJECTIVE_POWER -> MetaGet(meta, "AppMag")
          [] OTHER -> MetaGet(meta, "MPP")]

\* The dict literal `md = {...}` of properties
FixedProperties(desc, meta) ==
    [k \in {PROPERTY_NAME_COMMENT, PROPERTY_NAME_VENDOR, PROPERTY_NAME_QUICKHASH1,
            PROPERTY_NAME_BACKGROUND_COLOR, PROPERTY_NAME_OBJECTIVE_POWER,
            PROPERTY_NAME_MPP_X, PROPERTY_NAME_MPP_Y, PROPERTY_NAME_BOUNDS_X,
            PROPERTY_NAME_BOUNDS_Y, PROPERTY_NAME_BOUNDS_WIDTH,
            PROPERTY_NAME_BOUNDS_HEIGHT} |->
        CASE k = PROPERTY_NAME_COMMENT -> Str(desc)
          [] k = PROPERTY_NAME_VENDOR -> Str("aperio")
          [] k = PROPERTY_NAME_OBJECTIVE_POWER -> MetaGet(meta, "AppMag")
          [] k = PROPERTY_NAME_MPP_X -> MetaGet(meta, "MPP")
          [] k = PROPERTY_NAME_MPP_Y -> MetaGet(meta, "MPP")
          [] OTHER -> None]

\* f"aperio.{k}"
AperioKey(k) == "aperio." \o k

\* {f"aperio.{k}": v for k, v in sorted(aperio_meta.items())}
AperioProperties(meta) ==
    [k \in {AperioKey(j) : j \in DOMAIN meta} |->
        meta[CHOOSE j \in DOMAIN meta : AperioKey(j) = k]]

\* f"tiffslide.level[{lvl}].{what}"
LevelKey(lvl, what) == "tiffslide.level[" \o ToString(lvl) \o "]." \o what

LevelFacts == {"downsample", "height", "width", "tile-height", "tile-width"}

\* The per-level entries written by the loop over the levels
LevelProperties(s) ==
    [k \in {LevelKey(l, w) : l \in 0..(level_count(s) - 1), w \in LevelFacts} |->
        LET l == CHOOSE j \in 0..(level_count(s) - 1) :
                     \E w \in LevelFacts : LevelKey(j, w) = k
        IN  CASE k = LevelKey(l, "downsample") -> Num(level_downsamples(s)[l + 1])
              [] k = LevelKey(l, "height") -> Num(level_dimensions(s)[l + 1][2])
              [] k = LevelKey(l, "width") -> Num(level_dimensions(s)[l + 1][1])
              [] k = LevelKey(l, "tile-height") -> Num(s.tiles[l + 1][2])
              [] OTHER -> Num(s.tiles[l + 1][1])]

\* dict.update: the entries of b win
Update(a, b) ==
    [k \in DOMAIN a \cup DOMAIN b |-> IF k \in DOMAIN b THEN b[k] ELSE a[k]]

\* The description parser, svs_description_metadata(_aperio_desc): the parsed
\* map, or the ValueError it raises.
ParseDescription(s) ==
    CASE s.desc.parse = "ok" -> Ok(s.desc.meta)
      [] s.desc.parse = "invalid" -> Raise("ValueError: invalid Aperio image description")
      [] OTHER -> Raise("ValueError: other")

\* Mutant of RecoverParse: every ValueError of the parser is swallowed.
RecoverParseAll(parsed, recovered) ==
    IF IsOk(parsed) THEN Ok(parsed.val) ELSE Ok(EmptyMap)

\* try/except/else around the parser: the vendor map to go on with, or the
\* error that is re-raised.
RecoverParse(parsed, recovered) ==
    IF IsOk(parsed) THEN Ok(NormalizeMeta(parsed.val, recovered))
    ELSE IF parsed.exc = "ValueError: invalid Aperio image description"
    THEN Ok(EmptyMap)
    ELSE parsed

\* _aperio_recovered_header: None from tifffile 2021.6.14 on, else the text
\* before the first "|"
RecoveredHeader(s) == IF s.newver THEN None ELSE Str(s.desc.header)

\* The body of properties when self._metadata is None: the map, or the error.
ComputeProperties(s) ==
    IF ~s.newver /\ ~s.desc.aperio THEN Raise("AssertionError")
    ELSE LET meta == RecoverParse(ParseDescription(s), RecoveredHeader(s))
         IN  IF IsRaise(meta) THEN meta
             ELSE IF IsRaise(dimensions(s)) THEN dimensions(s)
             ELSE Ok(Update(Update(Update(FixedProperties(s.desc.text, meta.val),
                                          AperioProperties(meta.val)),
                                   LevelProperties(s)),
                            [k \in {"tiff.ImageDescription"} |-> Str(s.desc.text)]))

\* Whether the body of properties reaches the parser
ReachesParser(s) == s.newver \/ s.desc.aperio

\* Whether the body of properties emits the warning
Warns(s) ==
    ReachesParser(s) /\ IsRaise(ParseDescription(s))
    /\ IsOk(RecoverParse(ParseDescription(s), RecoveredHeader(s)))

-----------------------------------------------------------------------------
(* Associated-image table *)

\* str.lower on the series names of the model
Lower(n) ==
    CASE n = "Label" -> "label"
      [] n = "LABEL" -> "label"
      [] n = "Macro" -> "macro"
      [] n = "Thumbnail" -> "thumbnail"
      [] OTHER -> n

\* self._k = {s.name.lower(): s for s in series}: a later series of the same
\* lower-cased name replaces an earlier one.  The value is the position of
\* the series in series[1:].
AssocKeys(s) ==
    [k \in {Lower(s.aux[i]) : i \in 1..Len(s.aux)} |->
        CHOOSE i \in 1..Len(s.aux) :
            /\ Lower(s.aux[i]) = k
            /\ \A j \in 1..Len(s.aux) : Lower(s.aux[j]) = k => j <= i]

\* _LazyAssociatedImagesDict(self.ts_tifffile)
NewAssoc(s) == [k |-> AssocKeys(s), m |-> EmptyMap]

-----------------------------------------------------------------------------
(* The containers of the model *)

Tiles1 == <<<<2, 2>>>>
Tiles2 == <<<<4, 4>>, <<2, 2>>>>
Tiles3 == <<<<4, 4>>, <<4, 4>>, <<1, 1>>>>

DescFull ==
    [text |-> "Aperio Image Library v11|AppMag = 40|MPP = 0.25",
     header |-> "Aperio Image Library v11", aperio |-> TRUE, parse |-> "ok",
     meta |-> [k \in {"Header", "AppMag", "MPP"} |->
                 CASE k = "Header" -> Str("Aperio Image Library v11")
                   [] k = "AppMag" -> Str("40")
                   [] OTHER -> Str("0.25")]]
DescNoMag ==
    [text |-> "Aperio Image Library v10|Filename = a", header |-> "Aperio Image Library v10",
     aperio |-> TRUE, parse |-> "ok",
     meta |-> [k \in {"", "Aperio Image Library", "Header", "Filename"} |->
                 CASE k = "" -> Str("Aperio Image Library v10")
                   [] k = "Aperio Image Library" -> Str("v10")
                   [] k = "Header" -> Str("hdr")
                   [] OTHER -> Str("a")]]
DescNoHeader ==
    [text |-> "Aperio v9|MPP = 0.5", header |-> "Aperio v9", aperio |-> TRUE,
     parse |-> "ok", meta |-> [k \in {"MPP"} |-> Str("0.5")]]
DescEmpty ==
    [text |-> "Aperio", header |-> "Aperio", aperio |-> TRUE, parse |-> "ok",
     meta |-> [k \in {""} |-> Str("Aperio")]]
DescInvalid ==
    [text |-> "Generic TIFF", header |-> "Generic TIFF", aperio |-> FALSE,
     parse |-> "invalid", meta |-> EmptyMap]
DescOther ==
    [text |-> "Aperio v9|AppMag", header |-> "Aperio v9", aperio |-> TRUE,
     parse |-> "other", meta |-> EmptyMap]

Slide(levels, tiles, ndim, closable, desc, newver, aux) ==
    [levels |-> levels, tiles |-> tiles, ndim |-> ndim, closable |-> closable,
     desc |-> desc, newver |-> newver, aux |-> aux]

\* The containers a handle is opened on.  Every pyramid is well formed:
\* positive sides, level 0 the largest, downsamples non-decreasing.
Slides ==
    { Slide(<<<<4, 3>>>>, Tiles1, 3, FALSE, DescFull, TRUE, <<"Label", "Macro">>),
      Slide(<<<<16, 16>>, <<4, 4>>, <<1, 1>>>>, Tiles3, 3, TRUE, DescInvalid, TRUE,
            <<"Label", "LABEL", "Thumbnail">>),
      Slide(<<<<2000, 1000>>, <<500, 250>>>>, Tiles2, 3, TRUE, DescNoMag, FALSE, <<>>),
      Slide(<<<<12, 8>>, <<5, 3>>, <<5, 3>>>>, Tiles3, 3, FALSE, DescOther, TRUE,
            <<"Macro">>),
      Slide(<<<<3, 3>>>>, Tiles1, 2, TRUE, DescFull, TRUE, <<>>),
      Slide(<<<<16, 16>>, <<4, 4>>, <<1, 1>>>>, Tiles3, 3, FALSE, DescNoHeader, FALSE,
            <<"Thumbnail">>),
      Slide(<<<<4, 3>>>>, Tiles1, 3, TRUE, DescInvalid, FALSE, <<>>),
      Slide(<<<<12, 8>>, <<5, 3>>, <<5, 3>>>>, Tiles3, 3, TRUE, DescEmpty, TRUE, <<>>),
      Slide(<<<<2000, 1000>>, <<500, 250>>>>, Tiles2, 3, FALSE, DescNoHeader, TRUE,
            <<"Label">>) }

\* level-0 anchors of the region reads
RegionLocs == {<<0, 0>>, <<1, 1>>, <<5, 3>>, <<3, 5>>, <<-1, 0>>, <<-3, -2>>, <<12, 2>>}

\* level arguments of the region reads
RegionLevels == -1..3

\* sizes of the region reads: small windows, every level's full extent, and
\* one column more than level 0
RegionSizes(s) ==
    {<<1, 1>>, <<2, 3>>} \cup {s.levels[i] : i \in 1..Len(s.levels)}
    \cup {<<s.levels[1][1] + 1, s.levels[1][2]>>}

\* maximum sizes of the thumbnails
ThumbSizes == {<<200, 200>>, <<1, 1>>, <<3, 2>>, <<0, 5>>, <<4, 4>>, <<2, 9>>,
               <<7, 0>>, <<5000, 5000>>}

\* downsample targets
Targets == {<<p, q>> : p \in 0..MaxNum, q \in 1..MaxDen} \cup {<<100, 1>>}

\* the calls a handle is asked once, for the claims about single calls
PureCalls(s) ==
    {<<"read_region", loc, level, size>> :
        loc \in RegionLocs, level \in RegionLevels, size \in RegionSizes(s)}
    \cup {<<"get_thumbnail", size>> : size \in ThumbSizes}
    \cup {<<"get_best_level_for_downsample", t>> : t \in Targets}

\* the inputs of the reads in the life of a handle
LifeLocs == {<<0, 0>>, <<1, 1>>}
LifeLevels == {0, 1}
LifeSizes(s) == {<<1, 1>>, s.levels[1]}
LifeThumbSizes == {<<200, 200>>, <<2, 9>>}

\* keys asked of the associated-image table
AssocNames == {"label", "Label", "macro", "thumbnail", "overview"}

\* what reading pixel data from the container can yield
FetchOutcomes == IF tf_open THEN {"data"} ELSE {"data", "raise"}

-----------------------------------------------------------------------------
(* The handle *)

Call(fn) == [fn |-> fn]

\* bool(self._zarr_grp) in close
Truthy(grp) == grp.some /\ ViewLen(slide) > 0

\* Mutant of CloseCalls: the container is closed before the view.
CloseCallsReversed ==
    <<Call("tifffile.close")>>
    \o (IF Truthy(_zarr_grp)
        THEN <<[fn |-> "view.close", view |-> _zarr_grp.v, ok |-> slide.closable]>>
        ELSE <<>>)

\* The collaborator calls of close(), in order: view.close() when the view is
\* set (ok FALSE: it has no close and the AttributeError is passed over),
\* then ts_tifffile.close().
CloseCalls ==
    (IF Truthy(_zarr_grp)
     THEN <<[fn |-> "view.close", view |-> _zarr_grp.v, ok |-> slide.closable]>>
     ELSE <<>>)
    \o <<Call("tifffile.close")>>

\* The state change of close()
DoClose ==
    /\ calls' = CloseCalls
    /\ _zarr_grp' = IF Truthy(_zarr_grp) THEN NoneV ELSE _zarr_grp
    /\ tf_open' = FALSE

\* TiffSlide.close
close ==
    /\ DoClose
    /\ last' = [op |-> "close", args |-> <<>>, res |-> Ok(None)]
    /\ UNCHANGED <<slide, opens, _metadata, parses, warnings, assoc, decodes, scope>>

\* TiffSlide.__enter__
__enter__ ==
    /\ scope = "out"
    /\ scope' = "in"
    /\ calls' = <<>>
    /\ last' = [op |-> "__enter__", args |-> <<>>, res |-> Ok(None)]
    /\ UNCHANGED <<slide, tf_open, _zarr_grp, opens, _metadata, parses, warnings,
                   assoc, decodes>>

\* TiffSlide.__exit__: raised says whether the body left by an exception,
\* which __exit__ does not suppress.
__exit__ ==
    \E raised \in BOOLEAN :
        /\ scope = "in"
        /\ scope' = "out"
        /\ DoClose
        /\ last' = [op |-> "__exit__", args |-> <<raised>>,
                    res |-> IF raised THEN Raise("BodyError") ELSE Ok(None)]
        /\ UNCHANGED <<slide, opens, _metadata, parses, warnings, assoc, decodes>>

\* Whether an access of ts_zarr_grp opens a view
OpensView == ~_zarr_grp.some

\* The collaborator calls of an access of ts_zarr_grp
AccessCalls == IF OpensView THEN <<Call("aszarr"), Call("zarr.open")>> ELSE <<>>

\* The state change of an access of ts_zarr_grp
DoAccess ==
    /\ _zarr_grp' = IF OpensView THEN Some(opens + 1) ELSE _zarr_grp
    /\ opens' = IF OpensView THEN opens + 1 ELSE opens

\* TiffSlide.ts_zarr_grp
ts_zarr_grp ==
    /\ _zarr_grp.some \/ opens < MaxOpens
    /\ DoAccess
    /\ calls' = AccessCalls
    /\ last' = [op |-> "ts_zarr_grp", args |-> <<>>, res |-> Ok(_zarr_grp'.v)]
    /\ UNCHANGED <<slide, tf_open, _metadata, parses, warnings, assoc, decodes, scope>>

\* The fresh handle: TiffSlide.__init__ on one of the containers
Fresh ==
    /\ slide \in Slides
    /\ tf_open = TRUE
    /\ _zarr_grp = NoneV
    /\ opens = 0
    /\ _metadata = NoneV
    /\ parses = 0
    /\ warnings = 0
    /\ assoc = NoneV
    /\ decodes = [i \in 1..Len(slide.aux) |-> 0]
    /\ scope = "out"
    /\ calls = <<>>

-----------------------------------------------------------------------------
(* properties *)

\* What an access of properties returns or raises
PropsResult == IF _metadata.some THEN Ok(_metadata.v) ELSE ComputeProperties(slide)

\* The collaborator calls of an access of properties
PropsCalls ==
    IF _metadata.some THEN <<>>
    ELSE (IF ReachesParser(slide) THEN <<Call("svs_description_metadata")>> ELSE <<>>)
         \o (IF Warns(slide) THEN <<Call("warn")>> ELSE <<>>)

\* The state change of an access of properties
DoProperties ==
    /\ _metadata' = IF ~_metadata.some /\ IsOk(ComputeProperties(slide))
                   THEN Some(ComputeProperties(slide).val) ELSE _metadata
    /\ parses' = IF ~_metadata.some /\ ReachesParser(slide) THEN parses + 1 ELSE parses
    /\ warnings' = IF ~_metadata.some /\ Warns(slide) THEN warnings + 1 ELSE warnings

\* TiffSlide.properties
properties ==
    /\ _metadata.some \/ parses < MaxParses
    /\ DoProperties
    /\ calls' = PropsCalls
    /\ last' = [op |-> "properties", args |-> <<>>, res |-> PropsResult]
    /\ UNCHANGED <<slide, tf_open, _zarr_grp, opens, assoc, decodes, scope>>

-----------------------------------------------------------------------------
(* get_best_level_for_downsample, read_region, get_thumbnail *)

BestLevelBody(t) ==
    /\ calls' = <<>>
    /\ last' = [op |-> "get_best_level_for_downsample", args |-> <<t>>,
                res |-> get_best_level_for_downsample(slide, t)]
    /\ UNCHANGED <<slide, tf_open, _zarr_grp, opens, _metadata, parses, warnings,
                   assoc, decodes, scope>>

ReadRegionBody(loc, level, size, fetch, emptyOk) ==
    LET pre == ReadPrefix(slide, loc, level, size)
    IN  /\ _zarr_grp.some \/ opens < MaxOpens
        /\ IF IsRaise(pre)
           THEN /\ calls' = <<>>
                /\ last' = [op |-> "read_region", args |-> <<loc, level, size>>,
                            res |-> pre]
                /\ UNCHANGED <<_zarr_grp, opens>>
           ELSE LET res == ReadSuffix(slide, pre.val, fetch, emptyOk)
                IN  /\ DoAccess
                    /\ calls' = AccessCalls \o <<pre.val>>
                                \o (IF IsOk(res) THEN <<Call("fromarray")>> ELSE <<>>)
                    /\ last' = [op |-> "read_region",
                                args |-> <<loc, level, size>>, res |-> res]
        /\ UNCHANGED <<slide, tf_open, _metadata, parses, warnings, assoc,
                       decodes, scope>>

\* Whether the window of a request holds no pixel of its level (then emptyOk
\* matters)
EmptyChoices(loc, level, size) ==
    LET pre == ReadPrefix(slide, loc, level, size)
    IN  IF IsOk(pre) /\ IsOk(ViewGetItem(slide, pre.val))
           /\ (ImageSize(ViewGetItem(slide, pre.val).val)[1] = 0
               \/ ImageSize(ViewGetItem(slide, pre.val).val)[2] = 0)
        THEN BOOLEAN ELSE {TRUE}

GetThumbnailBody(size, fetch) ==
    /\ _zarr_grp.some \/ opens < MaxOpens
    /\ _metadata.some \/ parses < MaxParses
    /\ IF IsRaise(dimensions(slide))
       THEN /\ calls' = <<>>
            /\ last' = [op |-> "get_thumbnail", args |-> <<size>>,
                        res |-> dimensions(slide)]
            /\ UNCHANGED <<_zarr_grp, opens, _metadata, parses, warnings>>
       ELSE IF size[1] = 0 \/ size[2] = 0
       THEN /\ calls' = <<>>
            /\ last' = [op |-> "get_thumbnail", args |-> <<size>>,
                        res |-> Raise("ZeroDivisionError")]
            /\ UNCHANGED <<_zarr_grp, opens, _metadata, parses, warnings>>
       ELSE LET level == ThumbLevel(slide, size).val
                pre   == ReadPrefix(slide, <<0, 0>>, level,
                                    level_dimensions(slide)[TupleIndex(level, level_count(slide))])
                tile  == ReadSuffix(slide, pre.val, fetch, TRUE)
            IN  /\ DoAccess
                /\ IF IsRaise(tile)
                   THEN /\ calls' = AccessCalls \o <<pre.val>>
                        /\ last' = [op |-> "get_thumbnail", args |-> <<size>>,
                                    res |-> tile]
                        /\ UNCHANGED <<_metadata, parses, warnings>>
                   ELSE /\ DoProperties
                        /\ calls' = AccessCalls \o <<pre.val, Call("fromarray")>>
                                    \o PropsCalls
                                    \o (IF IsOk(PropsResult)
                                        THEN <<Call("Image.new"), Call("paste"),
                                               Call("thumbnail")>>
                                        ELSE <<>>)
                        /\ last' = [op |-> "get_thumbnail", args |-> <<size>>,
                                    res |-> IF IsRaise(PropsResult) THEN PropsResult
                                            ELSE Ok([size |-> ThumbnailSize(tile.val.size, size),
                                                     tile |-> tile.val.size])]
    /\ UNCHANGED <<slide, tf_open, assoc, decodes, scope>>

\* TiffSlide.read_region, in the life of a handle
read_region ==
    \E loc \in LifeLocs, level \in LifeLevels, size \in LifeSizes(slide),
       fetch \in FetchOutcomes :
        \E emptyOk \in EmptyChoices(loc, level, size) :
            ReadRegionBody(loc, level, size, fetch, emptyOk)

\* TiffSlide.get_thumbnail, in the life of a handle
get_thumbnail ==
    \E size \in LifeThumbSizes, fetch \in FetchOutcomes :
        GetThumbnailBody(size, fetch)

Init ==
    /\ Fresh
    /\ last = [op |-> "__init__", args |-> <<>>, res |-> Ok(None)]

Next ==
    close \/ __enter__ \/ __exit__ \/ ts_zarr_grp \/ read_region \/ get_thumbnail \/ properties

\* The life of a handle: construction, then any sequence of operations
Spec == Init /\ [][Next]_vars

-----------------------------------------------------------------------------
(* Single calls on a fresh handle *)

\* A fresh handle and the one call it is about to be asked
InitCall ==
    /\ Fresh
    /\ last \in {[op |-> "pending", args |-> c, res |-> Ok(None)] :
                    c \in PureCalls(slide)}

Pending(name) == last.op = "pending" /\ last.args[1] = name

\* TiffSlide.get_best_level_for_downsample, asked once
BestLevelCall ==
    /\ Pending("get_best_level_for_downsample")
    /\ BestLevelBody(last.args[2])

\* TiffSlide.read_region, asked once
ReadRegionCall ==
    /\ Pending("read_region")
    /\ \E emptyOk \in EmptyChoices(last.args[2], last.args[3], last.args[4]) :
           ReadRegionBody(last.args[2], last.args[3], last.args[4], "data", emptyOk)

\* TiffSlide.get_thumbnail, asked once
GetThumbnailCall ==
    /\ Pending("get_thumbnail")
    /\ GetThumbnailBody(last.args[2], "data")

NextCall == BestLevelCall \/ ReadRegionCall \/ GetThumbnailCall

\* One call on a fresh handle, for every container and every argument
SpecCall == InitCall /\ [][NextCall]_vars

-----------------------------------------------------------------------------
(* associated_images *)

\* The table an access of associated_images returns: the cached one, or a new
\* one that is cached
Table == IF assoc.some THEN assoc.v ELSE NewAssoc(slide)

\* An operation of the table that reads self._k only
AssocQuery(op, res) ==
    /\ assoc' = Some(Table)
    /\ calls' = <<>>
    /\ last' = [op |-> op, args |-> <<>>, res |-> Ok(res)]
    /\ UNCHANGED <<slide, tf_open, _zarr_grp, opens, _metadata, parses, warnings,
                   decodes, scope>>

\* _LazyAssociatedImagesDict.__iter__
__iter__ == AssocQuery("associated_images.__iter__", DOMAIN Table.k)

\* _LazyAssociatedImagesDict.__len__
__len__ == AssocQuery("associated_images.__len__", Cardinality(DOMAIN Table.k))

\* _LazyAssociatedImagesDict.__repr__: every key with the declared size of
\* its series (only the keys are kept here)
__repr__ == AssocQuery("associated_images.__repr__", DOMAIN Table.k)

\* Mutant of Cached: the cache is never consulted.
CachedNever(tbl, k) == FALSE

\* `k in self._m`
Cached(tbl, k) == k \in DOMAIN tbl.m

\* _LazyAssociatedImagesDict.__getitem__: fetch is what s.asarray() yields.
\* A decoded image is a new instance, named by its series and decode number.
__getitem__ ==
    \E k \in AssocNames, fetch \in FetchOutcomes :
        /\ IF Cached(Table, k)
           THEN /\ assoc' = Some(Table)
                /\ calls' = <<>>
                /\ last' = [op |-> "associated_images.__getitem__", args |-> <<k>>,
                            res |-> Ok(Table.m[k])]
                /\ UNCHANGED decodes
           ELSE IF k \notin DOMAIN Table.k
           THEN /\ assoc' = Some(Table)
                /\ calls' = <<>>
                /\ last' = [op |-> "associated_images.__getitem__", args |-> <<k>>,
                            res |-> Raise("KeyError")]
                /\ UNCHANGED decodes
           ELSE LET i   == Table.k[k]
                    img == [series |-> i, instance |-> decodes[i] + 1]
                IN  /\ decodes[i] < MaxDecodes
                    /\ calls' = <<[fn |-> "asarray", series |-> i]>>
                    /\ IF fetch = "raise"
                       THEN /\ assoc' = Some(Table)
                            /\ last' = [op |-> "associated_images.__getitem__",
                                        args |-> <<k>>, res |-> Raise("ClosedFileError")]
                            /\ UNCHANGED decodes
                       ELSE /\ assoc' = Some([Table EXCEPT !.m =
                                                 Update(Table.m, [j \in {k} |-> img])])
                            /\ decodes' = [decodes EXCEPT ![i] = @ + 1]
                            /\ last' = [op |-> "associated_images.__getitem__",
                                        args |-> <<k>>, res |-> Ok(img)]
        /\ UNCHANGED <<slide, tf_open, _zarr_grp, opens, _metadata, parses, warnings,
                       scope>>

NextAssoc == close \/ __iter__ \/ __len__ \/ __repr__ \/ __getitem__

\* The associated-image table of a handle, which may be closed meanwhile
SpecAssoc == Init /\ [][NextAssoc]_vars

-----------------------------------------------------------------------------
(* Claims about the life of a handle *)

ReadOps == {"read_region", "get_thumbnail"}
CloseOps == {"close", "__exit__"}

\* C1: once the handle is closed, every later read_region or get_thumbnail
\* fails instead of returning pixel data.
C1_NoReadAfterClose ==
    ~(last.op \in ReadOps /\ ~tf_open /\ IsOk(last.res))

\* C2: the chunked view is opened from the primary series at most once in
\* the life of a handle.
C2_ViewOpenedAtMostOnce == opens <= 1

\* C3: every close, explicit or by leaving the with block (normally or by an
\* exception of the body), releases a materialized view first and closes the
\* container after it, leaves the handle without a view reference, and passes
\* over a view that has no close while still closing the container.
C3_ViewReleasedBeforeContainer ==
    [][last'.op \in CloseOps =>
          /\ ~tf_open'
          /\ ~_zarr_grp'.some
          /\ calls'[Len(calls')].fn = "tifffile.close"
          /\ \A i \in 1..(Len(calls') - 1) : calls'[i].fn # "tifffile.close"
          /\ IF _zarr_grp.some
             THEN /\ Len(calls') = 2
                  /\ calls'[1].fn = "view.close"
                  /\ calls'[1].view = _zarr_grp.v
                  /\ calls'[1].ok = slide.closable
             ELSE Len(calls') = 1]_vars

\* C3 witness: the body of a with block raised while a view without close
\* was materialized, and the handle was closed.
C3_Witness ==
    /\ last.op = "__exit__"
    /\ IsRaise(last.res)
    /\ Len(calls) = 2
    /\ calls[1].fn = "view.close"
    /\ ~calls[1].ok
    /\ calls[2].fn = "tifffile.close"
    /\ ~tf_open
    /\ ~_zarr_grp.some

-----------------------------------------------------------------------------
(* Claims about single calls *)

\* the levels of a container whose downsample is strictly less than t
LevelsBelow(s, t) ==
    {i \in 0..(Len(s.levels) - 1) :
        DsLess(Reduce(<<s.levels[1][1] * s.levels[1][2],
                        s.levels[i + 1][1] * s.levels[i + 1][2]>>), Reduce(t))}

\* the greatest element of a non-empty set of integers
Greatest(S) == CHOOSE i \in S : \A j \in S : j <= i

\* the level the selection rule names for the target t
SelectedLevel(s, t) ==
    IF t[1] <= t[2] THEN 0 ELSE Greatest(LevelsBelow(s, t))

\* C4: get_best_level_for_downsample returns 0 for a target <= 1.0, else the
\* index of the last level whose downsample is strictly less than the target
\* (so a target equal to a level's downsample selects the level before it),
\* and level_count - 1 for a target above the coarsest downsample; on the
\* downsamples [1, 4, 16]: 4 -> 0, 5 -> 1, 100 -> 2.
C4_BestLevel ==
    (last.op = "get_best_level_for_downsample"
        /\ (slide.ndim = 3 \/ last.args[1][1] <= last.args[1][2])) =>
        LET t == last.args[1]
            n == Len(slide.levels)
        IN  /\ IsOk(last.res)
            /\ last.res.val = SelectedLevel(slide, t)
            /\ t[1] <= t[2] => last.res.val = 0
            /\ (t[1] > t[2] /\ LevelsBelow(slide, t) = 0..(n - 1)) => last.res.val = n - 1
            /\ slide.levels = <<<<16, 16>>, <<4, 4>>, <<1, 1>>>> =>
                  /\ t = <<4, 1>> => last.res.val = 0
                  /\ t = <<5, 1>> => last.res.val = 1
                  /\ t = <<100, 1>> => last.res.val = 2

\* C4 witness: on the downsamples [1, 4, 16] the target 4 selected level 0.
C4_Witness ==
    /\ last.op = "get_best_level_for_downsample"
    /\ slide.levels = <<<<16, 16>>, <<4, 4>>, <<1, 1>>>>
    /\ last.args[1] = <<4, 1>>
    /\ last.res = Ok(0)

\* q is a div b, for b > 0
IsFloor(q, a, b) == q * b <= a /\ a < (q + 1) * b

\* the requests the last operation made of the view
Requests == {i \in 1..Len(calls) : calls[i].fn = "getitem"}

\* C5: read_region((x0, y0), level, (w, h)) asks the view for exactly the
\* rows [levelY, levelY+h) and the columns [levelX, levelX+w) of the level,
\* with levelX = (x0 * levelW) div baseW and levelY = (y0 * levelH) div baseH;
\* the level is part of the index iff the view is level-indexed; a window
\* inside the level comes back as it is, and read_region((0,0), 0,
\* dimensions) returns a buffer of size dimensions.
C5_RegionWindow ==
    (last.op = "read_region" /\ slide.ndim = 3
        /\ last.args[2] >= 0 /\ last.args[2] < Len(slide.levels)) =>
        LET x0    == last.args[1][1]
            y0    == last.args[1][2]
            level == last.args[2]
            w     == last.args[3][1]
            h     == last.args[3][2]
            base  == slide.levels[1]
            lvl   == slide.levels[level + 1]
        IN  /\ Cardinality(Requests) = 1
            /\ \A i \in Requests :
                  /\ calls[i].rows[2] = calls[i].rows[1] + h
                  /\ calls[i].cols[2] = calls[i].cols[1] + w
                  /\ IsFloor(calls[i].cols[1], x0 * lvl[1], base[1])
                  /\ IsFloor(calls[i].rows[1], y0 * lvl[2], base[2])
                  /\ calls[i].indexed = (Len(slide.levels) > 1)
                  /\ calls[i].indexed => calls[i].level = level
                  /\ (/\ calls[i].cols[1] >= 0 /\ calls[i].cols[2] <= lvl[1]
                      /\ calls[i].rows[1] >= 0 /\ calls[i].rows[2] <= lvl[2]) =>
                        /\ IsOk(last.res)
                        /\ last.res.val.size = <<w, h>>
                        /\ last.res.val.pixels =
                              [level |-> level, rows |-> calls[i].rows,
                               cols |-> calls[i].cols]
            /\ (x0 = 0 /\ y0 = 0 /\ level = 0 /\ <<w, h>> = base) =>
                  IsOk(last.res) /\ last.res.val.size = base

\* C5 witness: a read at a level below the base, anchored off the origin,
\* that returned its window.
C5_Witness ==
    /\ last.op = "read_region"
    /\ slide.levels[1] = <<12, 8>>
    /\ last.args = <<<<3, 5>>, 1, <<1, 1>>>>
    /\ IsOk(last.res)
    /\ last.res.val.pixels = [level |-> 1, rows |-> <<1, 2>>, cols |-> <<1, 2>>]

\* C6: a region read returns a buffer of exactly the requested size or
\* raises; it never yields a part of the window.
C6_AllOrNothing ==
    last.op = "read_region" =>
        (IsRaise(last.res) \/ last.res.val.size = last.args[3])

\* C10: get_thumbnail((w, h)) reads exactly once, the whole of the level that
\* get_best_level_for_downsample selects for max(baseW/w, baseH/h), from the
\* origin, and the buffer it returns is at most w wide and h high; on a
\* 2000x1000 slide with (200, 200) the downsample is 10.
C10_Thumbnail ==
    /\ ThumbDownsample(<<2000, 1000>>, <<200, 200>>) = <<10, 1>>
    /\ (last.op = "get_thumbnail" /\ slide.ndim = 3
           /\ last.args[1][1] > 0 /\ last.args[1][2] > 0) =>
        LET w    == last.args[1][1]
            h    == last.args[1][2]
            base == slide.levels[1]
            d    == IF base[1] * h >= base[2] * w
                    THEN <<base[1], w>> ELSE <<base[2], h>>
            L    == SelectedLevel(slide, d)
        IN  /\ Cardinality(Requests) = 1
            /\ \A i \in Requests :
                  /\ calls[i].rows = <<0, slide.levels[L + 1][2]>>
                  /\ calls[i].cols = <<0, slide.levels[L + 1][1]>>
                  /\ calls[i].indexed => calls[i].level = L
                  /\ ~calls[i].indexed => L = 0
            /\ IsOk(last.res) =>
                  /\ last.res.val.tile = slide.levels[L + 1]
                  /\ last.res.val.size[1] <= w
                  /\ last.res.val.size[2] <= h
                  /\ last.res.val.size[1] >= 1
                  /\ last.res.val.size[2] >= 1

\* C10 witness: the 2000x1000 slide asked for a thumbnail within (200, 200)
\* read its level 1 whole and returned 200x100.
C10_Witness ==
    /\ last.op = "get_thumbnail"
    /\ slide.levels = <<<<2000, 1000>>, <<500, 250>>>>
    /\ last.args = <<<<200, 200>>>>
    /\ IsOk(last.res)
    /\ last.res.val.tile = <<500, 250>>
    /\ last.res.val.size = <<200, 100>>

-----------------------------------------------------------------------------
(* Claims about the associated-image table *)

AssocQueries == {"associated_images.__iter__", "associated_images.__len__",
                 "associated_images.__repr__"}

\* the lower-cased names of the non-primary series
LowerNames ==
    {CASE n \in {"Label", "LABEL", "label"} -> "label"
       [] n \in {"Macro", "macro"} -> "macro"
       [] n \in {"Thumbnail", "thumbnail"} -> "thumbnail"
       [] OTHER -> "?" : n \in {slide.aux[i] : i \in 1..Len(slide.aux)}}

\* C7: iterating the keys, taking the length and the representation decode
\* nothing; get(name) decodes on the first access only, so no series is
\* decoded twice and a cached buffer is the instance every later get
\* returns; the keys are the lower-cased names of the non-primary series.
C7_LazyCachedTable ==
    [][/\ last'.op \in AssocQueries =>
             /\ calls' = <<>>
             /\ decodes' = decodes
             /\ assoc'.v.m = Table.m
       /\ \A i \in DOMAIN decodes' : decodes'[i] <= 1
       /\ assoc'.some => DOMAIN assoc'.v.k = LowerNames
       /\ last'.op \in {"associated_images.__iter__", "associated_images.__repr__"} =>
             last'.res.val = LowerNames
       /\ last'.op = "associated_images.__len__" =>
             last'.res.val = Cardinality(LowerNames)
       /\ assoc.some =>
             /\ assoc'.some
             /\ \A k \in DOMAIN assoc.v.m :
                   /\ k \in DOMAIN assoc'.v.m
                   /\ assoc'.v.m[k] = assoc.v.m[k]
                   /\ (last'.op = "associated_images.__getitem__"
                          /\ last'.args = <<k>>) =>
                         /\ last'.res = Ok(assoc.v.m[k])
                         /\ calls' = <<>>
       /\ (last'.op = "associated_images.__getitem__" /\ IsOk(last'.res)) =>
             /\ last'.args[1] \in DOMAIN assoc'.v.m
             /\ assoc'.v.m[last'.args[1]] = last'.res.val]_vars

\* C7 witness: a get answered from the cache, with the series decoded once.
C7_Witness ==
    /\ last.op = "associated_images.__getitem__"
    /\ last.args = <<"label">>
    /\ IsOk(last.res)
    /\ calls = <<>>
    /\ slide.aux = <<"Label", "LABEL", "Thumbnail">>
    /\ decodes = <<0, 1, 0>>

-----------------------------------------------------------------------------
(* Claims about the property map *)

FixedKeys ==
    {"tiffslide.comment", "tiffslide.vendor", "tiffslide.quickhash-1",
     "tiffslide.background-color", "tiffslide.objective-power", "tiffslide.mpp-x",
     "tiffslide.mpp-y", "tiffslide.bounds-x", "tiffslide.bounds-y",
     "tiffslide.bounds-width", "tiffslide.bounds-height"}

\* the keys of the map that every container has
GeometryKeys ==
    {LevelKey(l, w) : l \in 0..(Len(slide.levels) - 1), w \in LevelFacts}

C9_PropertyMap ==
    [][/\ (last'.op = "properties" /\ IsOk(last'.res)) =>
             LET md   == last'.res.val
                 meta == slide.desc.meta
             IN  /\ FixedKeys \subseteq DOMAIN md
                 /\ GeometryKeys \subseteq DOMAIN md
                 /\ "tiffslide.level[0].width" \in DOMAIN md
                 /\ md["tiffslide.level[0].width"] = Num(slide.levels[1][1])
                 /\ \A k \in {"tiffslide.quickhash-1", "tiffslide.background-color",
                              "tiffslide.bounds-x", "tiffslide.bounds-y",
                              "tiffslide.bounds-width", "tiffslide.bounds-height"} :
                        md[k] = None
                 /\ (slide.desc.parse # "ok" \/ "AppMag" \notin DOMAIN meta) =>
                        md["tiffslide.objective-power"] = None
                 /\ (slide.desc.parse # "ok" \/ "MPP" \notin DOMAIN meta) =>
                        md["tiffslide.mpp-x"] = None /\ md["tiffslide.mpp-y"] = None
                 /\ (slide.desc.parse = "ok" /\ "AppMag" \in DOMAIN meta) =>
                        md["tiffslide.objective-power"] = meta["AppMag"]
                 /\ _metadata' = Some(md)
       /\ _metadata.some =>
             /\ _metadata' = _metadata
             /\ parses' = parses
             /\ warnings' = warnings
             /\ last'.op = "properties" =>
                   last'.res = Ok(_metadata.v) /\ calls' = <<>>]_vars

\* C9 witness: a second access of properties answered from the cache, for a
\* container whose vendor _metadata has no objective power.
C9_Witness ==
    /\ last.op = "properties"
    /\ IsOk(last.res)
    /\ calls = <<>>
    /\ parses = 1
    /\ slide.desc.parse = "ok"
    /\ "AppMag" \notin DOMAIN slide.desc.meta
    /\ last.res.val["tiffslide.objective-power"] = None

====
